---- MODULE Spec2Model ----
(***************************************************************************)
(* A model of the blogicum blog application (blog/views.py, blog/forms.py). *)
(* The database tables are partial functions from primary keys to rows,    *)
(* every view is one action that maps a request to a response and, for the *)
(* mutating views, to a new database state.                                *)
(***************************************************************************)
EXTENDS Integers, Sequences, FiniteSets, TLC

\* ------------------------------------------------------------------ bounds
MaxPosts == 2
MaxComments == 2
MaxTime == 1

\* --------------------------------------------------------------- constants
\* paginate_by = 10, Paginator(post, 10), Paginator(post_list, 10)
PageSize == 10

\* ------------------------------------------------------------------ domain
PostIds == 1..MaxPosts
CommentIds == 1..MaxComments
Times == 0..MaxTime

\* auth_user rows; request.user of a request without a session is AnonymousUser
UserIds == {"u1", "u2"}
Anonymous == "AnonymousUser"
Requesters == UserIds \cup {Anonymous}
Usernames == {"ann", "bob", "cat"}
Methods == {"GET", "POST"}

\* blog_category rows (slug -> is_published); categories are administered
\* outside the views, which only read them
CategoryPublished == [news |-> TRUE, drafts |-> FALSE]
Slugs == DOMAIN CategoryPublished
NoCategory == ""

VARIABLES
    now,          \* the wall clock, as last read by a request
    index_now,    \* the `now` bound into IndexListView.objects at import time
    users,        \* auth_user: id -> row
    posts,        \* blog_post: pk -> row, for the rows that exist
    next_post,    \* the next primary key of blog_post (keys are never reused)
    comments,     \* blog_comments: pk -> row, for the rows that exist
    next_comment, \* the next primary key of blog_comments
    request,      \* the last request handled
    response,     \* its response
    created_by,   \* history: post pk -> the requester whose submission created it
    comment_origin \* history: comment pk -> <<requester, post id>> of its add_comment

vars == <<now, index_now, users, posts, next_post, comments, next_comment,
          request, response, created_by, comment_origin>>

\* ------------------------------------------------------- requests, responses
\* pk, cid and name are the URL's arguments, data is the submitted form
Request(route, user, method, pk, cid, name, data) ==
    [route |-> route, user |-> user, method |-> method,
     pk |-> pk, cid |-> cid, name |-> name, data |-> data]

\* a request that submits no form
NoData == <<>>

\* request.POST: a GET request carries no form data
Submitted(method, form) == IF method = "POST" THEN form ELSE NoData

\* render(request, template, context): items is the page of posts (or the one
\* post of a detail page), errors says whether a bound form with errors is shown
Render(template, items, errors) ==
    [kind |-> "render", to |-> template, pk |-> 0, name |-> "",
     items |-> items, errors |-> errors]

\* redirect(urlname, pk=..) / redirect(urlname, username=..)
Redirect(to, pk, name) ==
    [kind |-> "redirect", to |-> to, pk |-> pk, name |-> name,
     items |-> <<>>, errors |-> FALSE]

\* Http404 raised by get_object_or_404
NotFound ==
    [kind |-> "not_found", to |-> "", pk |-> 0, name |-> "",
     items |-> <<>>, errors |-> FALSE]

\* the view function returned None: Django raises ValueError, no page, no redirect
NoResponse ==
    [kind |-> "none", to |-> "", pk |-> 0, name |-> "",
     items |-> <<>>, errors |-> FALSE]

\* login_required / LoginRequiredMixin for an unauthenticated requester
RedirectToLogin == Redirect("login", 0, "")

is_authenticated(user) == user \in UserIds

is_superuser(user) == user \in UserIds /\ users[user].is_superuser

\* ---------------------------------------------------------------- querysets
Range(s) == {s[i] : i \in 1..Len(s)}

\* every enumeration of the finite set S without repetition
RECURSIVE Perms(_)
Perms(S) ==
    IF S = {} THEN {<<>>}
    ELSE UNION {{<<x>> \o s : s \in Perms(S \ {x})} : x \in S}

\* .order_by('-pub_date'): the rows of ids in any order the database may return
\* them, newest first; rows with equal pub_date come in an unspecified order
order_by_pub_date(db, ids) ==
    {s \in Perms(ids) :
        \A i, j \in 1..Len(s) : i < j => db[s[i]].pub_date >= db[s[j]].pub_date}

\* .filter(is_published=True, pub_date__lte=t, category__is_published=True):
\* the join on category drops the rows whose category is NULL
PublicFilter(post, t) ==
    /\ post.is_published
    /\ post.pub_date <= t
    /\ post.category # NoCategory
    /\ CategoryPublished[post.category]

\* get_visible_posts() without its pub_date__lte condition
get_visible_posts_any_date(db, t) ==
    {p \in DOMAIN db :
        /\ db[p].is_published
        /\ db[p].category # NoCategory
        /\ CategoryPublished[db[p].category]}

\* get_visible_posts(), evaluated with the clock reading t
get_visible_posts(db, t) == {p \in DOMAIN db : PublicFilter(db[p], t)}

\* visible_to_user() with a first branch that also lets a superuser through
visible_to_user_superuser(db, user, author, t) ==
    IF user = author \/ is_superuser(user) THEN DOMAIN db
    ELSE IF is_authenticated(user)
         THEN {p \in DOMAIN db : PublicFilter(db[p], t) \/ db[p].author = user}
         ELSE {p \in DOMAIN db : PublicFilter(db[p], t)}

\* visible_to_user(user, author), evaluated with the clock reading t
visible_to_user(db, user, author, t) ==
    IF user = author THEN DOMAIN db
    ELSE IF is_authenticated(user)
         THEN {p \in DOMAIN db : PublicFilter(db[p], t) \/ db[p].author = user}
         ELSE {p \in DOMAIN db : PublicFilter(db[p], t)}

Min(a, b) == IF a <= b THEN a ELSE b

\* Paginator(object_list, 10).get_page(number): a number past the last page
\* gives the last page, and an empty list has one empty page
get_page(object_list, number) ==
    LET n == Len(object_list)
        num_pages == IF n = 0 THEN 1 ELSE (n + PageSize - 1) \div PageSize
        page == Min(number, num_pages)
    IN  SubSeq(object_list, (page - 1) * PageSize + 1, Min(page * PageSize, n))

PageNumbers == {1}

\* --------------------------------------------------------------------- Init
Init ==
    /\ now = 0
    /\ index_now = 0
    /\ users = [u \in UserIds |->
                  [username |-> IF u = "u1" THEN "ann" ELSE "bob",
                   first_name |-> "",
                   is_superuser |-> (u = "u2")]]
    /\ posts = <<>>
    /\ next_post = 1
    /\ comments = <<>>
    /\ next_comment = 1
    /\ request = Request("", Anonymous, "GET", 0, 0, "", NoData)
    /\ response = NoResponse
    /\ created_by = <<>>
    /\ comment_origin = <<>>

\* a request arrives at some time not before the last one
Clock(t) == t \in now..MaxTime /\ now' = t

\* ------------------------------------------------------------ listing views
\* IndexListView: get_queryset returns the class attribute `objects`, the
\* queryset get_visible_posts() built once, when the module was imported
IndexListView(user, t, number) ==
    /\ Clock(t)
    /\ \E object_list \in order_by_pub_date(posts, get_visible_posts(posts, index_now)) :
          response' = Render("blog/index.html", get_page(object_list, number), FALSE)
    /\ request' = Request("index", user, "GET", 0, 0, "", NoData)
    /\ UNCHANGED <<index_now, users, posts, next_post, comments, next_comment,
                   created_by, comment_origin>>

\* category_posts(request, category_slug)
category_posts(user, t, category_slug, number) ==
    /\ Clock(t)
    /\ request' = Request("category_posts", user, "GET", 0, 0, category_slug, NoData)
    /\ IF category_slug \in Slugs /\ CategoryPublished[category_slug]
       THEN \E post \in order_by_pub_date(posts,
                  {p \in get_visible_posts(posts, t) :
                      posts[p].category = category_slug}) :
               response' = Render("blog/category.html", get_page(post, number), FALSE)
       ELSE response' = NotFound
    /\ UNCHANGED <<index_now, users, posts, next_post, comments, next_comment,
                   created_by, comment_origin>>

\* get_object_or_404(User, username=username): the id of the row, if any
UserByName(username) == {u \in UserIds : users[u].username = username}

\* the queryset profile() paginates for request.user looking at profile_user
profile_post_list(db, user, profile_user, t) ==
    IF user = profile_user \/ is_superuser(user)
    THEN {p \in DOMAIN db : db[p].author = profile_user}
    ELSE {p \in visible_to_user(db, user, profile_user, t) :
             db[p].author = profile_user}

\* profile(request, username)
profile(user, t, username, number) ==
    /\ Clock(t)
    /\ request' = Request("profile", user, "GET", 0, 0, username, NoData)
    /\ IF UserByName(username) = {}
       THEN response' = NotFound
       ELSE \E profile_user \in UserByName(username) :
            \E post_list \in order_by_pub_date(posts,
                                profile_post_list(posts, user, profile_user, t)) :
               response' = Render("blog/profile.html", get_page(post_list, number), FALSE)
    /\ UNCHANGED <<index_now, users, posts, next_post, comments, next_comment,
                   created_by, comment_origin>>

\* --------------------------------------------------------------- detail view
\* get_object() that looks the post up among the publicly visible ones only
get_object_public_only(db, user, pk, t) ==
    IF pk \notin DOMAIN db THEN {}
    ELSE {pk} \cap get_visible_posts(db, t)

\* PostDetailView.get_object: the posts it returns for this requester
\* (empty: Http404)
get_object(db, user, pk, t) ==
    IF pk \notin DOMAIN db THEN {}
    ELSE IF db[pk].author = user THEN {pk}
    ELSE {pk} \cap visible_to_user(db, user, db[pk].author, t)

\* PostDetailView
PostDetailView(user, t, pk) ==
    /\ Clock(t)
    /\ request' = Request("post_detail", user, "GET", pk, 0, "", NoData)
    /\ response' = IF get_object(posts, user, pk, t) = {}
                   THEN NotFound
                   ELSE Render("blog/detail.html", <<pk>>, FALSE)
    /\ UNCHANGED <<index_now, users, posts, next_post, comments, next_comment,
                   created_by, comment_origin>>

\* ---------------------------------------------------------------- post forms
\* the data of a submitted post form; author is a value a client may add to the
\* POST data although the form has no such field
PostForms ==
    [title : {"", "t"}, is_published : BOOLEAN, pub_date : Times,
     category : Slugs \cup {NoCategory}, author : UserIds]

\* the valid submissions, with every combination of the publication fields
ValidPostForms == {f \in PostForms : f.title = "t" /\ f.author = "u2"}

\* the submissions used where the publication fields play no part
FewPostForms ==
    {f \in PostForms : f.pub_date = 0 /\ f.category = "news" /\ f.is_published}

\* PostForm.is_valid(): title is a required field of Post
PostForm_is_valid(form) == form.title # ""

\* PostForm.save() on an instance: Meta.exclude = ('author',), so the form
\* writes every field of Post but author
PostForm_save(instance, form) ==
    [instance EXCEPT !.title = form.title,
                     !.is_published = form.is_published,
                     !.pub_date = form.pub_date,
                     !.category = form.category]

\* Post(): the unsaved instance a CreateView binds its form to
NewPost ==
    [title |-> "", is_published |-> TRUE, pub_date |-> 0,
     category |-> NoCategory, author |-> ""]

\* form_valid() that leaves the author to the submitted data
form_valid_author_from_data(user, form) ==
    [PostForm_save(NewPost, form) EXCEPT !.author = form.author]

\* PostCreateView.form_valid: form.instance.author = self.request.user, then save
form_valid(user, form) ==
    [PostForm_save(NewPost, form) EXCEPT !.author = user]

\* PostCreateView.get_success_url
create_success_url(user) == Redirect("blog:profile", 0, users[user].username)

\* PostCreateView (LoginRequiredMixin, CreateView)
PostCreateView(user, method, form) ==
    /\ request' = Request("create_post", user, method, 0, 0, "", Submitted(method, form))
    /\ IF ~is_authenticated(user)
       THEN /\ response' = RedirectToLogin
            /\ UNCHANGED <<posts, next_post, created_by>>
       ELSE IF method = "GET"
       THEN /\ response' = Render("blog/create.html", <<>>, FALSE)
            /\ UNCHANGED <<posts, next_post, created_by>>
       ELSE IF ~PostForm_is_valid(form)
       THEN /\ response' = Render("blog/create.html", <<>>, TRUE)
            /\ UNCHANGED <<posts, next_post, created_by>>
       ELSE /\ next_post <= MaxPosts
            /\ posts' = [p \in DOMAIN posts \cup {next_post} |->
                            IF p = next_post THEN form_valid(user, form)
                            ELSE posts[p]]
            /\ created_by' = [p \in DOMAIN created_by \cup {next_post} |->
                                 IF p = next_post THEN user ELSE created_by[p]]
            /\ next_post' = next_post + 1
            /\ response' = create_success_url(user)
    /\ UNCHANGED <<now, index_now, users, comments, next_comment, comment_origin>>

\* test_func() that also passes a superuser
test_func_or_superuser(object, user) ==
    object.author = user \/ is_superuser(user)

\* OnlyAuthorMixin.test_func
test_func(object, user) == object.author = user

\* OnlyAuthorMixin.handle_no_permission
handle_no_permission(pk) == Redirect("blog:post_detail", pk, "")

\* PostUpdateView (OnlyAuthorMixin, UpdateView)
PostUpdateView(user, method, pk, form) ==
    /\ request' = Request("edit_post", user, method, pk, 0, "", Submitted(method, form))
    /\ IF pk \notin DOMAIN posts
       THEN /\ response' = NotFound
            /\ UNCHANGED posts
       ELSE IF ~test_func(posts[pk], user)
       THEN /\ response' = handle_no_permission(pk)
            /\ UNCHANGED posts
       ELSE IF method = "GET"
       THEN /\ response' = Render("blog/create.html", <<pk>>, FALSE)
            /\ UNCHANGED posts
       ELSE IF ~PostForm_is_valid(form)
       THEN /\ response' = Render("blog/create.html", <<pk>>, TRUE)
            /\ UNCHANGED posts
       ELSE /\ posts' = [posts EXCEPT ![pk] = PostForm_save(posts[pk], form)]
            /\ response' = Redirect("blog:post_detail", pk, "")
    /\ UNCHANGED <<now, index_now, users, next_post, comments, next_comment,
                   created_by, comment_origin>>

\* what deleting post pk does to the comments table: a comment is deleted
\* independently of its post, only by an explicit request of its author
comments_after_post_delete(cs, pk) == cs

\* PostDeleteView (OnlyAuthorMixin, DeleteView)
PostDeleteView(user, method, pk) ==
    /\ request' = Request("delete_post", user, method, pk, 0, "", NoData)
    /\ IF pk \notin DOMAIN posts
       THEN /\ response' = NotFound
            /\ UNCHANGED <<posts, comments>>
       ELSE IF ~test_func(posts[pk], user)
       THEN /\ response' = handle_no_permission(pk)
            /\ UNCHANGED <<posts, comments>>
       ELSE IF method = "GET"
       THEN /\ response' = Render("blog/create.html", <<pk>>, FALSE)
            /\ UNCHANGED <<posts, comments>>
       ELSE /\ posts' = [p \in DOMAIN posts \ {pk} |-> posts[p]]
            /\ comments' = comments_after_post_delete(comments, pk)
            /\ response' = Redirect("blog:index", 0, "")
    /\ UNCHANGED <<now, index_now, users, next_post, next_comment,
                   created_by, comment_origin>>

\* ------------------------------------------------------------ comment views
\* the data of a submitted comment form; author and post are values a client
\* may add to the POST data although the form has no such fields
CommentForms ==
    {f \in [text : {"", "a", "b"}, author : UserIds, post : PostIds] :
        (f.author = "u2") = (f.post = 1)}

\* the comment submissions without the extra values
PlainCommentForms == {f \in CommentForms : f.author = "u2" /\ f.post = 1}

\* CommentsForm.is_valid(): text is a required field of Comments
CommentsForm_is_valid(form) == form.text # ""

\* CommentsForm.save() of a form whose Meta.fields lists every field
CommentsForm_save_all_fields(instance, form) ==
    [instance EXCEPT !.text = form.text, !.author = form.author,
                     !.post = form.post]

\* CommentsForm.save() on an instance: Meta.fields = ('text',)
CommentsForm_save(instance, form) == [instance EXCEPT !.text = form.text]

\* Comments(): the unsaved instance form.save(commit=False) returns
NewComment == [text |-> "", author |-> "", post |-> 0]

\* add_comment: comment.author = request.user; comment.post = post
bind_comment(comment, user, post_id) ==
    [comment EXCEPT !.author = user, !.post = post_id]

\* add_comment(request, post_id), under @login_required
add_comment(user, method, post_id, form) ==
    /\ request' = Request("add_comment", user, method, post_id, 0, "",
                         Submitted(method, form))
    /\ IF ~is_authenticated(user)
       THEN /\ response' = RedirectToLogin
            /\ UNCHANGED <<comments, next_comment, comment_origin>>
       ELSE IF post_id \notin DOMAIN posts
       THEN /\ response' = NotFound
            /\ UNCHANGED <<comments, next_comment, comment_origin>>
       ELSE IF method = "POST" /\ CommentsForm_is_valid(form)
       THEN /\ next_comment <= MaxComments
            /\ comments' = [c \in DOMAIN comments \cup {next_comment} |->
                               IF c = next_comment
                               THEN bind_comment(CommentsForm_save(NewComment, form),
                                                 user, post_id)
                               ELSE comments[c]]
            /\ comment_origin' =
                   [c \in DOMAIN comment_origin \cup {next_comment} |->
                       IF c = next_comment THEN <<user, post_id>>
                       ELSE comment_origin[c]]
            /\ next_comment' = next_comment + 1
            /\ response' = Redirect("blog:post_detail", post_id, "")
       ELSE \* no return statement is reached
            /\ response' = NoResponse
            /\ UNCHANGED <<comments, next_comment, comment_origin>>
    /\ UNCHANGED <<now, index_now, users, posts, next_post, created_by>>

\* edit_comment / delete_comment: comment.author != request.user
not_comment_author(comment, user) == comment.author # user

\* edit_comment(request, post_id, comment_id), under @login_required
edit_comment(user, method, post_id, comment_id, form) ==
    /\ request' = Request("edit_comment", user, method, post_id, comment_id, "",
                         Submitted(method, form))
    /\ IF ~is_authenticated(user)
       THEN /\ response' = RedirectToLogin
            /\ UNCHANGED comments
       ELSE IF comment_id \notin DOMAIN comments
       THEN /\ response' = NotFound
            /\ UNCHANGED comments
       ELSE IF not_comment_author(comments[comment_id], user)
       THEN /\ response' = Redirect("blog:post_detail", post_id, "")
            /\ UNCHANGED comments
       ELSE IF method = "GET"
       THEN \* CommentsForm(None, instance=comment) is unbound: is_valid() is False
            /\ response' = Render("blog/comment.html", <<>>, FALSE)
            /\ UNCHANGED comments
       ELSE IF ~CommentsForm_is_valid(form)
       THEN /\ response' = Render("blog/comment.html", <<>>, TRUE)
            /\ UNCHANGED comments
       ELSE /\ comments' = [comments EXCEPT
                               ![comment_id] = CommentsForm_save(comments[comment_id], form)]
            /\ response' = Redirect("blog:post_detail", post_id, "")
    /\ UNCHANGED <<now, index_now, users, posts, next_post, next_comment,
                   created_by, comment_origin>>

\* delete_comment(request, post_id, comment_id), under @login_required
delete_comment(user, method, post_id, comment_id) ==
    /\ request' = Request("delete_comment", user, method, post_id, comment_id, "", NoData)
    /\ IF ~is_authenticated(user)
       THEN /\ response' = RedirectToLogin
            /\ UNCHANGED comments
       ELSE IF comment_id \notin DOMAIN comments
       THEN /\ response' = NotFound
            /\ UNCHANGED comments
       ELSE IF not_comment_author(comments[comment_id], user)
       THEN /\ response' = Redirect("blog:post_detail", post_id, "")
            /\ UNCHANGED comments
       ELSE IF method = "POST"
       THEN /\ comments' = [c \in DOMAIN comments \ {comment_id} |-> comments[c]]
            /\ response' = Redirect("blog:post_detail", post_id, "")
       ELSE /\ response' = Render("blog/comment.html", <<>>, FALSE)
            /\ UNCHANGED comments
    /\ UNCHANGED <<now, index_now, users, posts, next_post, next_comment,
                   created_by, comment_origin>>

\* ------------------------------------------------------------- edit profile
\* the data of a submitted profile form (last_name and email are optional
\* strings handled like first_name)
ProfileForms == [username : Usernames \cup {""}, first_name : {"", "Ann"}]

\* ProfileEditForm.is_valid() for instance=user: User.username is required
\* and unique, the other fields may be blank
ProfileEditForm_is_valid(user, form) ==
    /\ form.username # ""
    /\ \A other \in UserIds \ {user} : users[other].username # form.username

\* ProfileEditForm.save(): Meta.fields = ['username', 'first_name', 'last_name', 'email']
ProfileEditForm_save(instance, form) ==
    [instance EXCEPT !.username = form.username, !.first_name = form.first_name]

\* edit_profile(request), under @login_required
edit_profile(user, method, form) ==
    /\ request' = Request("edit_profile", user, method, 0, 0, "", Submitted(method, form))
    /\ IF ~is_authenticated(user)
       THEN /\ response' = RedirectToLogin
            /\ UNCHANGED users
       ELSE IF method = "POST"
       THEN IF ProfileEditForm_is_valid(user, form)
            THEN /\ users' = [users EXCEPT ![user] = ProfileEditForm_save(users[user], form)]
                 /\ response' = Redirect("blog:profile", 0, users'[user].username)
            ELSE /\ response' = Render("blog/user.html", <<>>, TRUE)
                 /\ UNCHANGED users
       ELSE /\ response' = Render("blog/user.html", <<>>, FALSE)
            /\ UNCHANGED users
    /\ UNCHANGED <<now, index_now, posts, next_post, comments, next_comment,
                   created_by, comment_origin>>

\* ------------------------------------------------------- the browsing system
\* posts are created, edited and deleted, and every listing and the detail page
\* are requested by every kind of viewer at every later time
NextView ==
    \/ \E user \in UserIds, form \in ValidPostForms :
          PostCreateView(user, "POST", form)
    \/ \E user \in UserIds, pk \in PostIds, form \in ValidPostForms :
          PostUpdateView(user, "POST", pk, form)
    \/ \E user \in UserIds, pk \in PostIds :
          PostDeleteView(user, "POST", pk)
    \/ \E user \in Requesters, t \in Times, number \in PageNumbers :
          IndexListView(user, t, number)
    \/ \E user \in Requesters, t \in Times, slug \in Slugs \cup {"nowhere"},
          number \in PageNumbers :
          category_posts(user, t, slug, number)
    \/ \E user \in Requesters, t \in Times, username \in Usernames,
          number \in PageNumbers :
          profile(user, t, username, number)
    \/ \E user \in Requesters, t \in Times, pk \in PostIds :
          PostDetailView(user, t, pk)

SpecView == Init /\ [][NextView]_vars

\* -------------------------------------------------------- the writing system
\* the smallest sets of submissions with a valid and an invalid form
MinPostForms == {f \in FewPostForms : f.author = "u2" /\ f.is_published}

MinCommentForms == {f \in CommentForms : f.text # "b" /\ f.author = "u2" /\ f.post = 1}

MinProfileForms == {f \in ProfileForms : f.first_name = ""}

\* the form routes, posted to by authenticated requesters
NextForms ==
    \/ \E user \in UserIds, form \in MinPostForms :
          PostCreateView(user, "POST", form)
    \/ \E user \in UserIds, pk \in PostIds, form \in MinPostForms :
          PostUpdateView(user, "POST", pk, form)
    \/ \E user \in UserIds, post_id \in PostIds, form \in MinCommentForms :
          add_comment(user, "POST", post_id, form)
    \/ \E user \in UserIds, post_id \in PostIds, comment_id \in CommentIds,
          form \in MinCommentForms :
          edit_comment(user, "POST", post_id, comment_id, form)
    \/ \E user \in UserIds, form \in MinProfileForms :
          edit_profile(user, "POST", form)

SpecForms == Init /\ [][NextForms]_vars

\* the protected routes, requested without a session; the rows they are aimed
\* at are created by authenticated requesters
NextAnon ==
    \/ \E user \in Requesters, method \in Methods, form \in MinPostForms :
          PostCreateView(user, method, form)
    \/ \E method \in Methods, pk \in PostIds, form \in MinPostForms :
          PostUpdateView(Anonymous, method, pk, form)
    \/ \E method \in Methods, pk \in PostIds :
          PostDeleteView(Anonymous, method, pk)
    \/ \E user \in Requesters, method \in Methods, post_id \in PostIds,
          form \in MinCommentForms :
          add_comment(user, method, post_id, form)
    \/ \E method \in Methods, post_id \in PostIds, comment_id \in CommentIds,
          form \in MinCommentForms :
          edit_comment(Anonymous, method, post_id, comment_id, form)
    \/ \E method \in Methods, post_id \in PostIds, comment_id \in CommentIds :
          delete_comment(Anonymous, method, post_id, comment_id)
    \/ \E method \in Methods, form \in MinProfileForms :
          edit_profile(Anonymous, method, form)

SpecAnon == Init /\ [][NextAnon]_vars

\* ---------------------------------------------------------- the guarded system
\* posts and comments are created by their authors, and every authenticated
\* requester tries to edit and to delete every post and every comment
ValidFewPostForms == {f \in FewPostForms : f.author = "u2" /\ f.title = "t"}

ValidPlainCommentForms == {f \in PlainCommentForms : f.text # ""}

NextGuard ==
    \/ \E user \in UserIds, form \in ValidFewPostForms :
          PostCreateView(user, "POST", form)
    \/ \E user \in UserIds, method \in Methods, pk \in PostIds,
          form \in ValidFewPostForms :
          PostUpdateView(user, method, pk, form)
    \/ \E user \in UserIds, method \in Methods, pk \in PostIds :
          PostDeleteView(user, method, pk)
    \/ \E user \in UserIds, post_id \in PostIds, form \in ValidPlainCommentForms :
          add_comment(user, "POST", post_id, form)
    \/ \E user \in UserIds, method \in Methods, post_id \in PostIds,
          comment_id \in CommentIds, form \in ValidPlainCommentForms :
          edit_comment(user, method, post_id, comment_id, form)
    \/ \E user \in UserIds, method \in Methods, post_id \in PostIds,
          comment_id \in CommentIds :
          delete_comment(user, method, post_id, comment_id)

SpecGuard == Init /\ [][NextGuard]_vars

\* ------------------------------------------------------- the posting system
\* posts are created and edited with forms that carry an author value
NextPost ==
    \/ \E user \in Requesters, method \in Methods, form \in FewPostForms :
          PostCreateView(user, method, form)
    \/ \E user \in Requesters, method \in Methods, pk \in PostIds,
          form \in FewPostForms :
          PostUpdateView(user, method, pk, form)
    \/ \E user \in UserIds, form \in ProfileForms :
          edit_profile(user, "POST", form)

SpecPost == Init /\ [][NextPost]_vars

\* ---------------------------------------------------- the commenting system
\* comments are added, edited and deleted by authenticated requesters with
\* valid forms that carry author and post values, under every post id in the URL
ValidCommentForms == {f \in CommentForms : f.text # ""}

NextComment ==
    \/ \E user \in UserIds, form \in MinPostForms :
          PostCreateView(user, "POST", form)
    \/ \E user \in UserIds, method \in Methods, post_id \in PostIds,
          form \in ValidCommentForms :
          add_comment(user, method, post_id, form)
    \/ \E user \in UserIds, method \in Methods, post_id \in PostIds,
          comment_id \in CommentIds, form \in ValidCommentForms :
          edit_comment(user, method, post_id, comment_id, form)
    \/ \E user \in UserIds, method \in Methods, post_id \in PostIds,
          comment_id \in CommentIds :
          delete_comment(user, method, post_id, comment_id)

SpecComment == Init /\ [][NextComment]_vars

\* ------------------------------------------------- the filter on its own
\* every table of at most MaxPosts posts
PostRows ==
    [title : {"t"}, is_published : BOOLEAN, pub_date : Times,
     category : Slugs \cup {NoCategory}, author : UserIds]

PostTables == UNION {[ids -> PostRows] : ids \in SUBSET PostIds}

InitFilter ==
    /\ now \in Times
    /\ index_now = 0
    /\ users = [u \in UserIds |->
                  [username |-> IF u = "u1" THEN "ann" ELSE "bob",
                   first_name |-> "",
                   is_superuser |-> (u = "u2")]]
    /\ posts \in PostTables
    /\ next_post = MaxPosts + 1
    /\ comments = <<>>
    /\ next_comment = 1
    /\ request = Request("", Anonymous, "GET", 0, 0, "", NoData)
    /\ response = NoResponse
    /\ created_by = [p \in DOMAIN posts |-> posts[p].author]
    /\ comment_origin = <<>>

\* a call of visible_to_user(user, author) and the evaluation of its queryset
call_visible_to_user(user, author) ==
    /\ request' = Request("visible_to_user", user, "GET", 0, 0, author, NoData)
    /\ \E objects \in order_by_pub_date(posts,
                          visible_to_user(posts, user, author, now)) :
          response' = Render("", objects, FALSE)
    /\ UNCHANGED <<now, index_now, users, posts, next_post, comments,
                   next_comment, created_by, comment_origin>>

NextFilter ==
    \E user \in Requesters, author \in UserIds : call_visible_to_user(user, author)

SpecFilter == InitFilter /\ [][NextFilter]_vars

\* ---------------------------------------------------------- the whole system
Next == NextView \/ NextForms \/ NextAnon \/ NextGuard \/ NextPost \/ NextComment

Spec == Init /\ [][Next]_vars

\* ==================================================================== claims
\* a post is publicly visible at time t: it is published, its publication
\* date has passed and it has a category that is published
PubliclyVisible(post, t) ==
    /\ post.is_published
    /\ post.pub_date <= t
    /\ post.category \in Slugs
    /\ CategoryPublished[post.category]

PostsOf(user) == {p \in DOMAIN posts : posts[p].author = user}

\* C1: the index page served to an anonymous viewer at time now lists exactly
\* the posts that are published, dated not after now and in a published
\* category, also the posts whose date was still ahead when the process started.
C1_IndexListsPublicPosts ==
    (request.route = "index" /\ request.user = Anonymous)
    => Range(response.items) =
          {p \in DOMAIN posts : PubliclyVisible(posts[p], now)}

C3_AuthorSeesOwnPosts ==
    /\ ( /\ request.route = "post_detail"
         /\ request.pk \in DOMAIN posts
         /\ posts[request.pk].author = request.user )
       => response = Render("blog/detail.html", <<request.pk>>, FALSE)
    /\ ( /\ request.route = "profile"
         /\ request.user \in UserByName(request.name) )
       => /\ response.kind = "render"
          /\ PostsOf(request.user) \subseteq Range(response.items)

\* C3's case: the author opens the detail page of an own post that is
\* unpublished, dated ahead and without category
C3_AuthorOpensHiddenPost ==
    /\ request.route = "post_detail"
    /\ request.pk \in DOMAIN posts
    /\ posts[request.pk].author = request.user
    /\ ~posts[request.pk].is_published
    /\ posts[request.pk].pub_date > now
    /\ posts[request.pk].category = NoCategory
    /\ response.kind = "render"

\* C4: a valid create-post submission of an authenticated user creates one post
\* whose author is that user, whatever author value the data carries, and is
\* answered by a redirect to that user's profile; every post keeps the author
\* that created it.
C4_AuthorIsCreator ==
    [][/\ ( /\ request'.route = "create_post"
            /\ request'.method = "POST"
            /\ is_authenticated(request'.user)
            /\ PostForm_is_valid(request'.data) )
          => /\ DOMAIN posts' = DOMAIN posts \cup {next_post}
             /\ next_post \notin DOMAIN posts
             /\ posts'[next_post].author = request'.user
             /\ response' = Redirect("blog:profile", 0,
                                     users[request'.user].username)
       /\ \A p \in DOMAIN posts' : posts'[p].author = created_by'[p]
      ]_vars

\* C4's case: a post was created from data that names another user as author
C4_CreatedWithForeignAuthor ==
    /\ request.route = "create_post"
    /\ request.method = "POST"
    /\ response.kind = "redirect"
    /\ response.to = "blog:profile"
    /\ request.data.author # request.user
    /\ (next_post - 1) \in DOMAIN posts
    /\ posts[next_post - 1].author = request.user

\* C5: for a requester who is not the author, the detail page is the post if
\* the post exists and is publicly visible, and not-found otherwise.
C5_DetailForOthers ==
    ( /\ request.route = "post_detail"
      /\ ~( /\ request.pk \in DOMAIN posts
            /\ posts[request.pk].author = request.user ) )
    => response =
          IF /\ request.pk \in DOMAIN posts
             /\ PubliclyVisible(posts[request.pk], now)
          THEN Render("blog/detail.html", <<request.pk>>, FALSE)
          ELSE NotFound

\* C5's case: a superuser asks for another user's post that is not publicly
\* visible and gets not-found
C5_SuperuserGetsNotFound ==
    /\ request.route = "post_detail"
    /\ is_superuser(request.user)
    /\ request.pk \in DOMAIN posts
    /\ posts[request.pk].author # request.user
    /\ ~PubliclyVisible(posts[request.pk], now)
    /\ response = NotFound

ProtectedRoutes ==
    {"create_post", "edit_post", "delete_post", "add_comment", "edit_comment",
     "delete_comment", "edit_profile"}

\* the post or comment the URL of the request names exists
NamesExistingRow(req) ==
    /\ req.route \in {"edit_post", "delete_post"} => req.pk \in DOMAIN posts
    /\ req.route \in {"edit_comment", "delete_comment"}
       => req.cid \in DOMAIN comments

\* C6: a request without a session to a protected route (here: one whose URL
\* names an existing post or comment) is answered by a redirect to the login
\* page and changes no post, comment or user.
C6_AnonymousSentToLogin ==
    [][( /\ request'.user = Anonymous
         /\ request'.route \in ProtectedRoutes
         /\ NamesExistingRow(request') )
       => /\ response' = RedirectToLogin
          /\ UNCHANGED <<posts, comments, users>>
      ]_vars

\* the requester may submit the form of the route: authenticated, the post of
\* an add-comment exists, the post or comment of an edit is the requester's own
Authorized(req) ==
    /\ is_authenticated(req.user)
    /\ req.route = "edit_post"
       => req.pk \in DOMAIN posts /\ posts[req.pk].author = req.user
    /\ req.route = "add_comment" => req.pk \in DOMAIN posts
    /\ req.route = "edit_comment"
       => req.cid \in DOMAIN comments /\ comments[req.cid].author = req.user

\* the submitted form of the request fails the validation of its route
FailsValidation(req) ==
    /\ req.method = "POST"
    /\ \/ req.route \in {"create_post", "edit_post"} /\ ~PostForm_is_valid(req.data)
       \/ req.route \in {"add_comment", "edit_comment"}
          /\ ~CommentsForm_is_valid(req.data)
       \/ req.route = "edit_profile" /\ ~ProfileEditForm_is_valid(req.user, req.data)

\* C7: a POST of an authorized requester whose form fails validation is
\* answered by the form page with its errors, not by a redirect, and changes no
\* post, comment or user.
C7_InvalidFormRedisplayed ==
    [][(Authorized(request') /\ FailsValidation(request'))
       => /\ response'.kind = "render"
          /\ response'.errors
          /\ UNCHANGED <<posts, comments, users>>
      ]_vars

\* C8: every comment has the author and the post of the add-comment request
\* that created it, whatever post id later edit URLs carry and whatever fields
\* later submissions carry.
C8_CommentKeepsAuthorAndPost ==
    \A c \in DOMAIN comments :
        /\ comments[c].author = comment_origin[c][1]
        /\ comments[c].post = comment_origin[c][2]

\* C8's case: the author edited a comment through the URL of another post with
\* data that names another post and another author
C8_EditedUnderOtherPost ==
    /\ request.route = "edit_comment"
    /\ response.kind = "redirect"
    /\ request.cid \in DOMAIN comments
    /\ comments[request.cid].author = request.user
    /\ comments[request.cid].text = request.data.text
    /\ request.pk # comments[request.cid].post
    /\ request.data.post # comments[request.cid].post
    /\ request.data.author # comments[request.cid].author

\* the posts the filter is to return for viewer and author
FilterResult(viewer, author) ==
    IF viewer = author THEN PostsOf(author)
    ELSE IF is_authenticated(viewer)
         THEN {p \in DOMAIN posts :
                  PubliclyVisible(posts[p], now) \/ posts[p].author = viewer}
         ELSE {p \in DOMAIN posts : PubliclyVisible(posts[p], now)}

\* C9: visible_to_user(viewer, author) returns the author's posts and no others
\* when viewer is the author, the publicly visible posts and the viewer's own
\* when viewer is another authenticated user, the publicly visible posts when
\* viewer is anonymous, each time newest first.
C9_FilterResult ==
    request.route = "visible_to_user"
    => /\ Range(response.items) = FilterResult(request.user, request.name)
       /\ Len(response.items) = Cardinality(Range(response.items))
       /\ \A i, j \in 1..Len(response.items) :
             i < j => posts[response.items[i]].pub_date
                         >= posts[response.items[j]].pub_date

Listings == {"index", "category_posts", "profile"}

\* C10: every post in a listing served to a viewer is returned, not not-found,
\* by the detail page for the same viewer at the same time.
C10_ListedIsOpenable ==
    request.route \in Listings
    => \A p \in Range(response.items) :
          get_object(posts, request.user, p, now) # {}

\* the profile of another user, listed for a superuser
SuperuserOnForeignProfile ==
    /\ request.route = "profile"
    /\ is_superuser(request.user)
    /\ request.user \notin UserByName(request.name)

\* C10 as amended: every post in a listing served to a viewer, except the
\* listing of another user's profile served to a superuser, is returned by the
\* detail page for the same viewer at the same time.
C10_ListedIsOpenableUnlessSuperuser ==
    (request.route \in Listings /\ ~SuperuserOnForeignProfile)
    => \A p \in Range(response.items) :
          get_object(posts, request.user, p, now) # {}

\* C10's case: an authenticated viewer who is no superuser is served a
\* non-empty listing of another user's profile
C10_ForeignProfileListed ==
    /\ request.route = "profile"
    /\ is_authenticated(request.user)
    /\ ~is_superuser(request.user)
    /\ request.user \notin UserByName(request.name)
    /\ response.kind = "render"
    /\ Len(response.items) > 0

====
